---- MODULE Spec2Model ----
(***************************************************************************)
(* Model of src/javascripts/alphabet.js: the alphabet-table interpreter.   *)
(*                                                                         *)
(* A JavaScript string is a sequence of one-character strings, so "ab" is  *)
(* <<"a", "b">>.  An alphabet is a sequence of entries; the entry          *)
(* [symbol, legacy, sortBase, accentRank, caseValue] of the source         *)
(* (indices 0, 2, 3, 4) is the record                                      *)
(* [symbol, sortBase, accentRank, caseValue].  A call either returns       *)
(* (ok = TRUE, val = the value) or throws (ok = FALSE, with the parts of   *)
(* the Error message: its wording, the quoted text, the trailing text).    *)
(***************************************************************************)
EXTENDS Integers, Sequences, FiniteSets

VARIABLES alphabet, calls

vars == <<alphabet, calls>>

(***************************************************************************)
(* Bounds of the model.                                                    *)
(***************************************************************************)
MaxEntries == 2
MaxSymLen == 2
MaxTextLen == 3
MaxCalls == 2

(***************************************************************************)
(* Results of a call.                                                      *)
(***************************************************************************)
Ok(v) == [ok |-> TRUE, val |-> v, kind |-> "", quoted |-> <<>>, text |-> <<>>]

Err(kind, quoted, text) ==
    [ok |-> FALSE, val |-> <<>>, kind |-> kind, quoted |-> quoted, text |-> text]

UnknownSymbolIn == "Unknown symbol in"
UnknownSymbol == "Unknown symbol"
NoMatchingCharacter == "No matching character found for"
MultipleMatchingCharacters == "Mulitple matching characters found for"
NoUnaccentedForm == "No matching symbol without accents for"

Entry(symbol, sortBase, accentRank, caseValue) ==
    [symbol |-> symbol, sortBase |-> sortBase,
     accentRank |-> accentRank, caseValue |-> caseValue]

Min(a, b) == IF a < b THEN a ELSE b

(* String.prototype.substr(start, length): at most length characters from  *)
(* the 0-based position start, cut at the end of the string.               *)
substr(s, start, length) == SubSeq(s, start + 1, Min(start + length, Len(s)))

(***************************************************************************)
(* getSymbols: the symbol column, in table order.                          *)
(***************************************************************************)
getSymbols(alpha) == [i \in 1..Len(alpha) |-> alpha[i].symbol]

(***************************************************************************)
(* splitSymbols.                                                           *)
(***************************************************************************)
(* Variant: a whole symbol instead of a prefix (=== without substr).       *)
validSymbolPart_Exact(reference, str) ==
    \E i \in 1..Len(reference) : reference[i] = str

(* Variant: substr(0, 1), the first character only.                        *)
validSymbolPart_FirstChar(reference, str) ==
    \E i \in 1..Len(reference) : substr(reference[i], 0, 1) = str

validSymbolPart(reference, str) ==
    \E i \in 1..Len(reference) : substr(reference[i], 0, Len(str)) = str

(* Variant: buffer.length > 1.                                             *)
pushBuffer_OffByOne(symbols, buffer) ==
    IF Len(buffer) > 1 THEN Append(symbols, buffer) ELSE symbols

(* if (buffer.length) { symbols.push(buffer) }                             *)
pushBuffer(symbols, buffer) ==
    IF Len(buffer) > 0 THEN Append(symbols, buffer) ELSE symbols

RECURSIVE splitLoop(_, _, _, _, _)
splitLoop(reference, str, i, buffer, symbols) ==
    IF i > Len(str)
    THEN Ok(pushBuffer(symbols, buffer))
    ELSE LET ch == <<str[i]>> IN
         IF validSymbolPart(reference, buffer \o ch)
         THEN splitLoop(reference, str, i + 1, buffer \o ch, symbols)
         ELSE IF validSymbolPart(reference, ch)
              THEN splitLoop(reference, str, i + 1, ch, pushBuffer(symbols, buffer))
              ELSE Err(UnknownSymbolIn, ch, str)

splitSymbols(alpha, str) == splitLoop(getSymbols(alpha), str, 1, <<>>, <<>>)

(***************************************************************************)
(* zeroPad, getSymbolInfo, getSortBase, sortValue.                         *)
(*                                                                         *)
(* zeroPad and the += of sortValue are applied to the sortBase as the      *)
(* table holds it, a Number; a JavaScript value is tagged with its type.   *)
(***************************************************************************)
JSString(s) == [type |-> "string", value |-> s]
JSNumber(n) == [type |-> "number", value |-> n]

Digit(d) == <<"0", "1", "2", "3", "4", "5", "6", "7", "8", "9">>[d + 1]

RECURSIVE NatToString(_)
NatToString(n) ==
    IF n < 10 THEN <<Digit(n)>> ELSE Append(NatToString(n \div 10), Digit(n % 10))

(* ToString of a JavaScript value, as string concatenation applies it.     *)
ToString(v) ==
    IF v.type = "string" THEN v.value
    ELSE IF v.value < 0 THEN <<"-">> \o NatToString(-v.value)
    ELSE NatToString(v.value)

(* str.length < min: the length of a Number is undefined, and              *)
(* undefined < min is false.                                               *)
lengthLessThan(str, min) == str.type = "string" /\ Len(str.value) < min

RECURSIVE zeroPad(_, _)
zeroPad(min, str) ==
    IF lengthLessThan(str, min)
    THEN zeroPad(min, JSString(<<"0">> \o str.value))
    ELSE str

RECURSIVE infoLoop(_, _, _)
infoLoop(alpha, symbol, i) ==
    IF i > Len(alpha) THEN Err(UnknownSymbol, symbol, <<>>)
    ELSE IF alpha[i].symbol = symbol THEN Ok(alpha[i])
    ELSE infoLoop(alpha, symbol, i + 1)

getSymbolInfo(alpha, symbol) == infoLoop(alpha, symbol, 1)

getSortBase(alpha, symbol) ==
    LET info == getSymbolInfo(alpha, symbol) IN
    IF info.ok THEN Ok(info.val.sortBase) ELSE info

RECURSIVE sortLoop(_, _, _, _)
sortLoop(alpha, symbols, i, value) ==
    IF i > Len(symbols) THEN Ok(value)
    ELSE LET sortbase == getSortBase(alpha, symbols[i]) IN
         IF ~sortbase.ok THEN sortbase
         ELSE sortLoop(alpha, symbols, i + 1,
                       value \o ToString(zeroPad(2, JSNumber(sortbase.val))))

sortValue(alpha, str) ==
    LET symbols == splitSymbols(alpha, str) IN
    IF ~symbols.ok THEN symbols ELSE sortLoop(alpha, symbols.val, 1, <<>>)

(***************************************************************************)
(* setCase, toUpperCase, toLowerCase.                                      *)
(***************************************************************************)
RECURSIVE join(_)
join(strings) ==
    IF strings = <<>> THEN <<>> ELSE Head(strings) \o join(Tail(strings))

(* Variant: accentSort = info[4], the wrong column.                        *)
newcase_AccentFromCase(alpha, info, caseval) ==
    SelectSeq(alpha,
        LAMBDA s : /\ s.sortBase = info.sortBase /\ s.accentRank = info.caseValue
                   /\ (s.caseValue = caseval \/ s.caseValue = -1))

(* Variant: without || s[4] === -1.                                        *)
newcase_NoNeutral(alpha, info, caseval) ==
    SelectSeq(alpha,
        LAMBDA s : /\ s.sortBase = info.sortBase /\ s.accentRank = info.accentRank
                   /\ s.caseValue = caseval)

(* alphabet.filter(...): the entries with the sortBase and accentRank of   *)
(* info whose caseValue is caseval or -1, in table order.                  *)
newcase(alpha, info, caseval) ==
    SelectSeq(alpha,
        LAMBDA s : /\ s.sortBase = info.sortBase /\ s.accentRank = info.accentRank
                   /\ (s.caseValue = caseval \/ s.caseValue = -1))

(* symbols.map(...): the callback throws at the first symbol it cannot     *)
(* resolve; the quoted text of its messages is s[0], the first character   *)
(* of the symbol.                                                          *)
RECURSIVE caseLoop(_, _, _, _, _)
caseLoop(alpha, symbols, caseval, i, newcased) ==
    IF i > Len(symbols) THEN Ok(join(newcased))
    ELSE LET s == symbols[i]
             info == getSymbolInfo(alpha, s)
         IN  IF ~info.ok THEN info
             ELSE LET matches == newcase(alpha, info.val, caseval) IN
                  IF Len(matches) = 0
                  THEN Err(NoMatchingCharacter, <<s[1]>>, <<>>)
                  ELSE IF Len(matches) > 1
                  THEN Err(MultipleMatchingCharacters, <<s[1]>>, <<>>)
                  ELSE caseLoop(alpha, symbols, caseval, i + 1,
                                Append(newcased, matches[1].symbol))

setCase(alpha, str, caseval) ==
    LET symbols == splitSymbols(alpha, str) IN
    IF ~symbols.ok THEN symbols ELSE caseLoop(alpha, symbols.val, caseval, 1, <<>>)

toUpperCase(alpha, str) == setCase(alpha, str, 1)

toLowerCase(alpha, str) == setCase(alpha, str, 0)

(***************************************************************************)
(* removeSymbolAccent, stripAccents.                                       *)
(***************************************************************************)
RECURSIVE accentLoop(_, _, _)
accentLoop(alpha, symbol, i) ==
    IF i > Len(alpha) THEN Err(NoUnaccentedForm, symbol.symbol, <<>>)
    ELSE LET s == alpha[i] IN
         IF /\ s.sortBase = symbol.sortBase /\ s.accentRank = 0
            /\ s.caseValue = symbol.caseValue
         THEN Ok(s.symbol)
         ELSE accentLoop(alpha, symbol, i + 1)

(* Variant: without && s[4] === sortcase.                                  *)
removeSymbolAccent_AnyCase(alpha, symbol) ==
    IF symbol.accentRank = 0 THEN Ok(symbol.symbol)
    ELSE LET hits == SelectSeq(alpha,
                 LAMBDA s : s.sortBase = symbol.sortBase /\ s.accentRank = 0)
         IN  IF hits = <<>> THEN Err(NoUnaccentedForm, symbol.symbol, <<>>)
             ELSE Ok(hits[1].symbol)

removeSymbolAccent(alpha, symbol) ==
    IF symbol.accentRank = 0 THEN Ok(symbol.symbol)
    ELSE accentLoop(alpha, symbol, 1)

RECURSIVE stripLoop(_, _, _, _)
stripLoop(alpha, symbols, i, result) ==
    IF i > Len(symbols) THEN Ok(result)
    ELSE LET s == getSymbolInfo(alpha, symbols[i]) IN
         IF ~s.ok THEN s
         ELSE LET plain == removeSymbolAccent(alpha, s.val) IN
              IF ~plain.ok THEN plain
              ELSE stripLoop(alpha, symbols, i + 1, result \o plain.val)

(* Variant: the loop starts at i = 1.                                      *)
stripAccents_SkipFirst(alpha, str) ==
    LET symbols == splitSymbols(alpha, str) IN
    IF ~symbols.ok THEN symbols ELSE stripLoop(alpha, symbols.val, 2, <<>>)

stripAccents(alpha, str) ==
    LET symbols == splitSymbols(alpha, str) IN
    IF ~symbols.ok THEN symbols ELSE stripLoop(alpha, symbols.val, 1, <<>>)

(***************************************************************************)
(* The inputs: alphabet tables and texts.                                  *)
(***************************************************************************)
Chars == {"a", "b"}
FormChars == {"a"}
SortBases == {2, 10}
CaseValues == {-1, 0, 1}

(* <<sortBase, accentRank>>: a letter, its accented form, another letter.  *)
FormClasses == {<<1, 0>>, <<1, 1>>, <<2, 0>>}

StringsOver(chars, n) == UNION {[1..k -> chars] : k \in 0..n}

Symbols(chars) == StringsOver(chars, MaxSymLen) \ {<<>>}

Texts == StringsOver(Chars, MaxTextLen)

FormTexts == StringsOver(FormChars, MaxTextLen)

Tables(entries) == UNION {[1..n -> entries] : n \in 0..MaxEntries}

(* splitSymbols reads the symbol column only.                              *)
SplitEntries == {Entry(s, 1, 0, -1) : s \in Symbols(Chars)}

(* sortValue reads the symbol and sortBase columns.                        *)
SortEntries == {Entry(s, b, 0, -1) : s \in Symbols(Chars), b \in SortBases}

(* setCase, removeSymbolAccent and stripAccents read every column; the     *)
(* symbols a, aa, ... overlap, so a result can tokenize differently.       *)
FormEntries ==
    {Entry(s, k[1], k[2], c) : s \in Symbols(FormChars), k \in FormClasses,
                               c \in CaseValues}

(***************************************************************************)
(* The caller: a chain of at most MaxCalls calls on one alphabet.  The     *)
(* first call is made on a text, a later one on the string the call before *)
(* it returned.                                                            *)
(***************************************************************************)
StringOps == {"sortValue", "toUpperCase", "toLowerCase", "stripAccents"}

Last(seq) == seq[Len(seq)]

InputsFrom(texts) ==
    IF calls = <<>> THEN texts
    ELSE IF Last(calls).res.ok /\ Last(calls).op \in StringOps
         THEN {Last(calls).res.val}
         ELSE {}

Inputs == InputsFrom(Texts)

FormInputs == InputsFrom(FormTexts)

Record(op, arg, res) ==
    /\ Len(calls) < MaxCalls
    /\ calls' = Append(calls, [op |-> op, arg |-> arg, res |-> res])
    /\ UNCHANGED alphabet

SplitSymbols ==
    \E str \in Inputs : Record("splitSymbols", str, splitSymbols(alphabet, str))

SortValue ==
    \E str \in Inputs : Record("sortValue", str, sortValue(alphabet, str))

ToUpperCase ==
    \E str \in FormInputs : Record("toUpperCase", str, toUpperCase(alphabet, str))

ToLowerCase ==
    \E str \in FormInputs : Record("toLowerCase", str, toLowerCase(alphabet, str))

RemoveSymbolAccent ==
    /\ calls = <<>>
    /\ \E symbol \in FormEntries :
           Record("removeSymbolAccent", symbol, removeSymbolAccent(alphabet, symbol))

StripAccents ==
    \E str \in FormInputs : Record("stripAccents", str, stripAccents(alphabet, str))

(* The tokenizer.                                                          *)
Init == alphabet \in Tables(SplitEntries) /\ calls = <<>>
Next == SplitSymbols
Spec == Init /\ [][Next]_vars

(* Sort keys.                                                              *)
InitSort == alphabet \in Tables(SortEntries) /\ calls = <<>>
NextSort == SortValue
SpecSort == InitSort /\ [][NextSort]_vars

(* Case conversion.                                                        *)
InitCase == alphabet \in Tables(FormEntries) /\ calls = <<>>
NextCase == ToUpperCase \/ ToLowerCase
SpecCase == InitCase /\ [][NextCase]_vars

(* Accent stripping.                                                       *)
InitAccent == alphabet \in Tables(FormEntries) /\ calls = <<>>
NextAccent == RemoveSymbolAccent \/ StripAccents
SpecAccent == InitAccent /\ [][NextAccent]_vars

(***************************************************************************)
(* Vocabulary of the properties, stated on the table and the texts alone.  *)
(***************************************************************************)
IsPrefix(p, s) == Len(p) <= Len(s) /\ \A j \in 1..Len(p) : p[j] = s[j]

IsSymbol(t) == \E i \in 1..Len(alphabet) : alphabet[i].symbol = t

IsSymbolPrefix(p) == \E i \in 1..Len(alphabet) : IsPrefix(p, alphabet[i].symbol)

(* The definition of a symbol: its first entry in table order.             *)
Def(t) ==
    alphabet[CHOOSE i \in 1..Len(alphabet) :
                 /\ alphabet[i].symbol = t
                 /\ \A j \in 1..(i - 1) : alphabet[j].symbol # t]

RECURSIVE TotalLen(_)
TotalLen(tokens) ==
    IF tokens = <<>> THEN 0 ELSE Len(Head(tokens)) + TotalLen(Tail(tokens))

(* The position in the text of the first character of the k-th token.      *)
TokenStart(tokens, k) == 1 + TotalLen(SubSeq(tokens, 1, k - 1))

(* text is the tokens one after the other: nothing dropped, nothing added. *)
Covers(tokens, text) ==
    /\ TotalLen(tokens) = Len(text)
    /\ \A k \in 1..Len(tokens) :
           tokens[k] = SubSeq(text, TokenStart(tokens, k),
                              TokenStart(tokens, k) + Len(tokens[k]) - 1)

CallsOf(op) == {n \in 1..Len(calls) : calls[n].op = op}

Returned(op) == {n \in CallsOf(op) : calls[n].res.ok}

(***************************************************************************)
(* C1: every token splitSymbols returns is the symbol of some entry of the *)
(* alphabet.                                                               *)
(***************************************************************************)
C1_TokensAreSymbols ==
    \A n \in Returned("splitSymbols") :
        \A k \in 1..Len(calls[n].res.val) : IsSymbol(calls[n].res.val[k])

(***************************************************************************)
(* C4: when splitSymbols returns, the tokens concatenated in order are     *)
(* exactly the text.                                                       *)
(***************************************************************************)
C4_RoundTrip ==
    \A n \in Returned("splitSymbols") : Covers(calls[n].res.val, calls[n].arg)

C4_Witness ==
    \E n \in Returned("splitSymbols") :
        /\ Len(calls[n].res.val) >= 2
        /\ \E k \in 1..Len(calls[n].res.val) : Len(calls[n].res.val[k]) >= 2

(* The buffer before the k-th character is the last token of the scan of   *)
(* the k - 1 characters before it.                                         *)
BufferBefore(str, k) ==
    IF k = 1 THEN <<>> ELSE Last(splitSymbols(alphabet, SubSeq(str, 1, k - 1)).val)

DeadEnds(str) ==
    {k \in 1..Len(str) :
        /\ splitSymbols(alphabet, SubSeq(str, 1, k - 1)).ok
        /\ ~IsSymbolPrefix(BufferBefore(str, k) \o <<str[k]>>)
        /\ ~IsSymbolPrefix(<<str[k]>>)}

(***************************************************************************)
(* C9: splitSymbols throws exactly when the scan meets a character c such  *)
(* that neither buffer + c nor c alone is a prefix of a table symbol; the  *)
(* error is that of the first such character, quotes it and the whole      *)
(* text, and no tokens are returned.                                       *)
(***************************************************************************)
C9_ErrorAtFirstDeadEnd ==
    \A n \in CallsOf("splitSymbols") :
        LET str == calls[n].arg
            res == calls[n].res
        IN  /\ res.ok <=> DeadEnds(str) = {}
            /\ ~res.ok =>
                   \E k \in DeadEnds(str) :
                       /\ \A j \in DeadEnds(str) : k <= j
                       /\ res = Err(UnknownSymbolIn, <<str[k]>>, str)

C9_Witness ==
    \E n \in CallsOf("splitSymbols") :
        /\ ~calls[n].res.ok
        /\ \E k \in DeadEnds(calls[n].arg) :
               /\ k >= 2
               /\ IsSymbolPrefix(<<calls[n].arg[k - 1]>>)
               /\ calls[n].res.quoted = <<calls[n].arg[k]>>

(***************************************************************************)
(* C10: when splitSymbols returns, no table symbol strictly longer than a  *)
(* token is a prefix of the text from the position where the token starts. *)
(***************************************************************************)
C10_LongestMatch ==
    \A n \in Returned("splitSymbols") :
        LET tokens == calls[n].res.val
            str == calls[n].arg
        IN  \A k \in 1..Len(tokens) : \A i \in 1..Len(alphabet) :
                Len(alphabet[i].symbol) > Len(tokens[k]) =>
                    ~IsPrefix(alphabet[i].symbol,
                              SubSeq(str, TokenStart(tokens, k), Len(str)))

C10_Witness ==
    \E n \in Returned("splitSymbols") :
        \E k \in 1..Len(calls[n].res.val) : \E i \in 1..Len(alphabet) :
            /\ IsSymbol(calls[n].res.val[k])
            /\ Len(alphabet[i].symbol) < Len(calls[n].res.val[k])
            /\ IsPrefix(alphabet[i].symbol, calls[n].res.val[k])

TwoDigits(n) == <<Digit(n \div 10), Digit(n % 10)>>

(***************************************************************************)
(* C3: for sortBase values in 0..99, sortValue returns two decimal digits  *)
(* per token, the sortBase of the token padded on the left with "0".       *)
(***************************************************************************)
C3_TwoDigitsPerToken ==
    \A n \in Returned("sortValue") :
        LET tokens == splitSymbols(alphabet, calls[n].arg).val
            key == calls[n].res.val
        IN  /\ Len(key) = 2 * Len(tokens)
            /\ \A k \in 1..Len(tokens) :
                   SubSeq(key, 2 * k - 1, 2 * k) = TwoDigits(Def(tokens[k]).sortBase)

SortBasesOf(str) ==
    LET tokens == splitSymbols(alphabet, str).val
    IN  [k \in 1..Len(tokens) |-> Def(tokens[k]).sortBase]

(* Lexicographic order of sequences whose elements are ranked by rank.     *)
LexLess(x, y, rank(_)) ==
    \/ Len(x) < Len(y) /\ \A j \in 1..Len(x) : x[j] = y[j]
    \/ \E p \in 1..Min(Len(x), Len(y)) :
           /\ \A j \in 1..(p - 1) : x[j] = y[j]
           /\ rank(x[p]) < rank(y[p])

(* The digits are in the order of their character codes.                   *)
DigitRank(c) == CHOOSE d \in 0..9 : Digit(d) = c

Same(n) == n

(***************************************************************************)
(* C2: if the sortBase sequence of x's tokens is lexicographically smaller *)
(* than that of y's tokens, sortValue of x is smaller than sortValue of y  *)
(* as a string (compared character by character).                          *)
(***************************************************************************)
C2_MonotonicSortKey ==
    \A n \in Returned("sortValue") : \A y \in Texts :
        (/\ sortValue(alphabet, y).ok
         /\ LexLess(SortBasesOf(calls[n].arg), SortBasesOf(y), Same))
        => LexLess(calls[n].res.val, sortValue(alphabet, y).val, DigitRank)

(***************************************************************************)
(* Case conversion.                                                        *)
(***************************************************************************)
CaseOps == {"toUpperCase", "toLowerCase"}

CaseCalls == {n \in 1..Len(calls) : calls[n].op \in CaseOps}

TargetCase(op) == IF op = "toUpperCase" THEN 1 ELSE 0

CaseMatches(t, targetCase) ==
    {i \in 1..Len(alphabet) :
        /\ alphabet[i].sortBase = Def(t).sortBase
        /\ alphabet[i].accentRank = Def(t).accentRank
        /\ alphabet[i].caseValue \in {targetCase, -1}}

Resolves(t, targetCase) == IsSymbol(t) /\ Cardinality(CaseMatches(t, targetCase)) = 1

CaseOf(t, targetCase) ==
    alphabet[CHOOSE i \in CaseMatches(t, targetCase) : TRUE].symbol

(***************************************************************************)
(* C5: setCase resolves every token to the symbol of the one entry with    *)
(* the sortBase and accentRank of the token's definition and a caseValue   *)
(* of targetCase or -1; at the first token with no such entry it throws    *)
(* "no matching character", at the first with more than one it throws      *)
(* "multiple matching characters", and returns nothing.                    *)
(***************************************************************************)
C5_SetCaseExactlyOneMatch ==
    \A n \in CaseCalls :
        LET split == splitSymbols(alphabet, calls[n].arg) IN
        split.ok =>
        LET tokens == split.val
            target == TargetCase(calls[n].op)
            res == calls[n].res
            stuck == {k \in 1..Len(tokens) : ~Resolves(tokens[k], target)}
        IN  /\ stuck = {} =>
                   /\ res.ok
                   /\ Covers([k \in 1..Len(tokens) |-> CaseOf(tokens[k], target)],
                             res.val)
            /\ \A k \in stuck :
                   ((\A j \in stuck : k <= j) /\ IsSymbol(tokens[k])) =>
                       /\ ~res.ok
                       /\ res.val = <<>>
                       /\ Cardinality(CaseMatches(tokens[k], target)) = 0
                              => res.kind = NoMatchingCharacter
                       /\ Cardinality(CaseMatches(tokens[k], target)) > 1
                              => res.kind = MultipleMatchingCharacters

(* A call that threw on a token with two matching entries of different     *)
(* symbols.                                                                *)
C5_Witness ==
    \E n \in CaseCalls :
        /\ calls[n].res.kind = MultipleMatchingCharacters
        /\ LET t == splitSymbols(alphabet, calls[n].arg).val[1]
           IN  /\ IsSymbol(t)
               /\ \E i, j \in CaseMatches(t, TargetCase(calls[n].op)) :
                      alphabet[i].symbol # alphabet[j].symbol

CaseBearing(str) ==
    LET split == splitSymbols(alphabet, str)
    IN  /\ split.ok
        /\ \A k \in 1..Len(split.val) :
               IsSymbol(split.val[k]) /\ Def(split.val[k]).caseValue \in {0, 1}

(* The calls toUpperCase(text) that returned and were followed by          *)
(* toLowerCase of the result.                                              *)
UpperThenLower ==
    {n \in 1..(Len(calls) - 1) :
        /\ calls[n].op = "toUpperCase" /\ calls[n].res.ok
        /\ calls[n + 1].op = "toLowerCase" /\ calls[n + 1].arg = calls[n].res.val
        /\ CaseBearing(calls[n].arg)}

(***************************************************************************)
(* C8: for a text of symbols whose caseValue is 0 or 1,                    *)
(* toLowerCase(toUpperCase(text)) equals toLowerCase(text).                *)
(***************************************************************************)
C8_CaseInvolution ==
    \A n \in UpperThenLower :
        calls[n + 1].res = toLowerCase(alphabet, calls[n].arg)

(* y tokenizes into as many tokens as x, the k-th with the sortBase and     *)
(* accentRank of the k-th token of x.                                      *)
SameClasses(x, y) ==
    LET sx == splitSymbols(alphabet, x)
        sy == splitSymbols(alphabet, y)
    IN  /\ sx.ok /\ sy.ok
        /\ Len(sx.val) = Len(sy.val)
        /\ \A k \in 1..Len(sx.val) :
               /\ IsSymbol(sx.val[k]) /\ IsSymbol(sy.val[k])
               /\ Def(sx.val[k]).sortBase = Def(sy.val[k]).sortBase
               /\ Def(sx.val[k]).accentRank = Def(sy.val[k]).accentRank

(***************************************************************************)
(* C8, amended: for a text of symbols whose caseValue is 0 or 1, if the    *)
(* string toUpperCase returns tokenizes into as many tokens as the text,   *)
(* the k-th with the sortBase and accentRank of the k-th token of the      *)
(* text, then toLowerCase of that string and toLowerCase of the text       *)
(* return the same string, or both throw the same kind of error.           *)
(***************************************************************************)
C8_CaseInvolutionSameClasses ==
    \A n \in UpperThenLower :
        SameClasses(calls[n].arg, calls[n].res.val) =>
            LET direct == toLowerCase(alphabet, calls[n].arg)
                viaUpper == calls[n + 1].res
            IN  /\ viaUpper.ok = direct.ok
                /\ viaUpper.val = direct.val
                /\ viaUpper.kind = direct.kind

C8_Witness ==
    \E n \in UpperThenLower :
        /\ SameClasses(calls[n].arg, calls[n].res.val)
        /\ calls[n].res.val # calls[n].arg
        /\ Len(splitSymbols(alphabet, calls[n].arg).val) >= 2
        /\ calls[n + 1].res.ok
        /\ calls[n + 1].res.val # calls[n].res.val

PlainMatches(symbol) ==
    {i \in 1..Len(alphabet) :
        /\ alphabet[i].sortBase = symbol.sortBase
        /\ alphabet[i].accentRank = 0
        /\ alphabet[i].caseValue = symbol.caseValue}

AccentedCalls ==
    {n \in CallsOf("removeSymbolAccent") : calls[n].arg.accentRank # 0}

(***************************************************************************)
(* C6: removeSymbolAccent of an accented symbol throws when more than one  *)
(* entry has its sortBase, accentRank 0 and its caseValue.                 *)
(***************************************************************************)
C6_AmbiguousPlainFormThrows ==
    \A n \in AccentedCalls :
        Cardinality(PlainMatches(calls[n].arg)) > 1 => ~calls[n].res.ok

(***************************************************************************)
(* C6, amended: with more than one such entry removeSymbolAccent returns   *)
(* the symbol of the first of them in table order; with exactly one it     *)
(* returns that entry's symbol; with none it throws the no-unaccented-form *)
(* error.                                                                  *)
(***************************************************************************)
C6_FirstPlainForm ==
    \A n \in AccentedCalls :
        LET found == PlainMatches(calls[n].arg)
            res == calls[n].res
        IN  /\ found = {} => res = Err(NoUnaccentedForm, calls[n].arg.symbol, <<>>)
            /\ \A i \in found :
                   (\A j \in found : i <= j) => res = Ok(alphabet[i].symbol)

C6_Witness ==
    \E n \in AccentedCalls :
        /\ calls[n].res.ok
        /\ \E i, j \in PlainMatches(calls[n].arg) :
               /\ i < j
               /\ alphabet[i].symbol # alphabet[j].symbol
               /\ calls[n].res.val = alphabet[i].symbol

(* The calls stripAccents(text) that returned and were followed by         *)
(* stripAccents of the result.                                             *)
StripThenStrip ==
    {n \in 1..(Len(calls) - 1) :
        /\ calls[n].op = "stripAccents" /\ calls[n].res.ok
        /\ calls[n + 1].op = "stripAccents" /\ calls[n + 1].arg = calls[n].res.val}

(***************************************************************************)
(* C7: stripAccents(stripAccents(text)) equals stripAccents(text).         *)
(***************************************************************************)
C7_StripIdempotent ==
    \A n \in StripThenStrip : calls[n + 1].res = calls[n].res

(* Every token of str is a symbol whose definition has accentRank 0.       *)
Unaccented(str) ==
    LET split == splitSymbols(alphabet, str)
    IN  /\ split.ok
        /\ \A k \in 1..Len(split.val) :
               IsSymbol(split.val[k]) /\ Def(split.val[k]).accentRank = 0

(***************************************************************************)
(* C7, amended: if every token of the string stripAccents(text) returns is *)
(* a symbol whose definition has accentRank 0, stripAccents of that string *)
(* returns it unchanged.                                                   *)
(***************************************************************************)
C7_StripIdempotentOnUnaccented ==
    \A n \in StripThenStrip :
        Unaccented(calls[n].res.val) => calls[n + 1].res = calls[n].res

C7_Witness ==
    \E n \in StripThenStrip :
        /\ Unaccented(calls[n].res.val)
        /\ calls[n].res.val # calls[n].arg
        /\ Len(splitSymbols(alphabet, calls[n].arg).val) >= 2

====
